---- MODULE Spec2Model ----
(***************************************************************************)
(* Model of gabba_event_scraper.py: the page is fetched, every event       *)
(* container is parsed into an event dict (scrape_gabba_events), and the   *)
(* event list is turned into calendar components and written               *)
(* (create_ical_file), driven by the __main__ block.                       *)
(*                                                                         *)
(* A page is a record [text, blocks]; a block is one <a href="/events/.."> *)
(* container: [title, href, date_divs, time_rows].  date_divs are the      *)
(* <div>s inside the date block, each [text, hidden]; time_rows are the    *)
(* div.text-h6 rows, each the sequence of the texts of its <span>s.        *)
(* Date fragments of the model carry day numbers above 12 and the only     *)
(* hidden text is "TBC"; time values are taken from TimeValues.  The date  *)
(* of the run is read once: a run does not cross midnight.                 *)
(***************************************************************************)
EXTENDS Integers, Sequences, FiniteSets, TLC

VARIABLES
    pc,            \* position of the script
    now,           \* datetime.now(): the date of the run
    page,          \* what the browser would render (driver.page_source)
    html_content,  \* result of get_page_source_with_selenium()
    idx,           \* number of event_elements the for-loop has consumed
    events,        \* the list built by scrape_gabba_events
    event_src,     \* for each event, the index of the container it came from
    start_time_str, \* the local of scrape_gabba_events, as the last iteration left it
    entries,       \* components added to cal by create_ical_file
    entry_src,     \* for each component, the index of the event it came from
    stamp,         \* ticks of datetime.now() read for dtstamp
    output_file,   \* gabba-events.ics: "untouched", "truncated" or "written"
    file_entries,  \* components in the bytes written to gabba-events.ics
    exit_code      \* process exit status, meaningful when pc = "exited"

vars == <<pc, now, page, html_content, idx, events, event_src, start_time_str,
          entries, entry_src, stamp, output_file, file_entries, exit_code>>

----------------------------------------------------------------------------
(* Bounds *)

MaxBlocks == 5

MaxRows == 3

----------------------------------------------------------------------------
(* Calendar arithmetic (datetime) *)

MonthAbbr == <<"Jan", "Feb", "Mar", "Apr", "May", "Jun",
               "Jul", "Aug", "Sep", "Oct", "Nov", "Dec">>

IsLeap(y) == (y % 4 = 0) /\ ((y % 100 # 0) \/ (y % 400 = 0))

DaysInMonth(y, m) ==
    IF m = 2 THEN (IF IsLeap(y) THEN 29 ELSE 28)
    ELSE IF m \in {4, 6, 9, 11} THEN 30 ELSE 31

\* datetime.__lt__ on two naive datetimes
DateTimeLess(a, b) ==
    \/ a.year < b.year
    \/ a.year = b.year /\ a.month < b.month
    \/ a.year = b.year /\ a.month = b.month /\ a.day < b.day
    \/ a.year = b.year /\ a.month = b.month /\ a.day = b.day
       /\ a.hour < b.hour
    \/ a.year = b.year /\ a.month = b.month /\ a.day = b.day
       /\ a.hour = b.hour /\ a.minute < b.minute

\* datetime.now().replace(hour=0, minute=0, second=0, microsecond=0)
Midnight(d) ==
    [year |-> d.year, month |-> d.month, day |-> d.day, hour |-> 0, minute |-> 0]

Pad2(n) == IF n < 10 THEN "0" \o ToString(n) ELSE ToString(n)

\* datetime.isoformat() of a naive datetime with zero seconds
IsoFormat(dt) ==
    ToString(dt.year) \o "-" \o Pad2(dt.month) \o "-" \o Pad2(dt.day)
        \o "T" \o Pad2(dt.hour) \o ":" \o Pad2(dt.minute) \o ":00"

\* dt + timedelta(hours=h), h < 24
PlusHours(dt, h) ==
    IF dt.hour + h < 24 THEN [dt EXCEPT !.hour = dt.hour + h]
    ELSE IF dt.day < DaysInMonth(dt.year, dt.month)
         THEN [dt EXCEPT !.hour = dt.hour + h - 24, !.day = dt.day + 1]
    ELSE IF dt.month < 12
         THEN [dt EXCEPT !.hour = dt.hour + h - 24, !.day = 1,
                         !.month = dt.month + 1]
    ELSE [dt EXCEPT !.hour = dt.hour + h - 24, !.day = 1, !.month = 1,
                    !.year = dt.year + 1]

----------------------------------------------------------------------------
(* dateutil.parser.parse on the strings the script builds *)

NoDateTime == [year |-> 0, month |-> 0, day |-> 0, hour |-> 0, minute |-> 0]

ParseOk(dt) == [ok |-> TRUE, value |-> dt]

\* dateutil's ParserError, a ValueError
ParserError == [ok |-> FALSE, value |-> NoDateTime]

MonthNumber(s) ==
    IF \E m \in 1..12 : MonthAbbr[m] = s
    THEN CHOOSE m \in 1..12 : MonthAbbr[m] = s
    ELSE 0

NumeralValue(s) ==
    IF \E n \in 1..31 : ToString(n) = s
    THEN CHOOSE n \in 1..31 : ToString(n) = s
    ELSE 0

\* parse_date(start_time_str): the time of day a time text denotes
ParseTimeOfDay(s) ==
    CASE s = "1:30pm" -> [ok |-> TRUE, hour |-> 13, minute |-> 30]
      [] s = "7:00pm" -> [ok |-> TRUE, hour |-> 19, minute |-> 0]
      [] OTHER -> [ok |-> FALSE, hour |-> 0, minute |-> 0]

\* f"{day_num} {month_str} {current_year}", optionally followed by " {time}"
DateString(day_num, month_str, year) ==
    [day_num |-> day_num, month_str |-> month_str, year |-> year, time |-> ""]

WithTime(date_string, time_str) == [date_string EXCEPT !.time = time_str]

\* parse_date(s) for s a DateString: "<day> <Mon> <year>" is that date; an
\* out-of-range day, a number above 12 where the month is read
\* ("<weekday> <number> <year>" is read as month and year) and an unknown
\* word such as "TBC" raise ParserError.
ParseDate(s) ==
    LET d == NumeralValue(s.day_num)
        m == MonthNumber(s.month_str)
        t == IF s.time = ""
             THEN [ok |-> TRUE, hour |-> 0, minute |-> 0]
             ELSE ParseTimeOfDay(s.time)
    IN  IF ~t.ok THEN ParserError
        ELSE IF d > 0 /\ m > 0
        THEN IF d <= DaysInMonth(s.year, m)
             THEN ParseOk([year |-> s.year, month |-> m, day |-> d,
                           hour |-> t.hour, minute |-> t.minute])
             ELSE ParserError
        ELSE ParserError

----------------------------------------------------------------------------
(* scrape_gabba_events: one container *)

NoTitle == "<no h3>"

SiteOrigin == "https://thegabba.com.au"

StartsWithHttp(s) == Len(s) >= 4 /\ SubSeq(s, 1, 4) = "http"

\* lines 133-135
AbsoluteUrl(href) ==
    IF ~StartsWithHttp(href) THEN SiteOrigin \o href ELSE href

\* line 130
TitleOf(block) ==
    IF block.title # NoTitle THEN block.title ELSE "Unknown Event"

\* line 139: date_block.find_all('div'), hidden or not
DateParts(block) == [k \in 1..Len(block.date_divs) |-> block.date_divs[k].text]

\* lines 146-152: the date string with the year the script settles on
ResolveDateString(day_num, month_str, today) ==
    LET current_year == today.year
        parsed_date_check == ParseDate(DateString(day_num, month_str, current_year))
    IN  IF ~parsed_date_check.ok
        THEN [raised |-> TRUE,
              date_string |-> DateString(day_num, month_str, current_year)]
        ELSE IF DateTimeLess(parsed_date_check.value, Midnight(today))
                /\ today.month = 1
        THEN [raised |-> FALSE,
              date_string |-> DateString(day_num, month_str, current_year + 1)]
        ELSE [raised |-> FALSE,
              date_string |-> DateString(day_num, month_str, current_year)]

\* TimeRowStep without the "not start_time_str" test: the last valid time wins
TimeRowStepLastWins(acc, time_spans) ==
    IF Len(time_spans) = 2
    THEN [description_lines |->
              Append(acc.description_lines, time_spans[1] \o " - " \o time_spans[2]),
          start_time_str |->
              IF time_spans[1] # "TBC" THEN time_spans[1] ELSE acc.start_time_str]
    ELSE acc

\* TimeRowStep with the description line added under the "TBC" test
TimeRowStepSkipTbc(acc, time_spans) ==
    IF Len(time_spans) = 2
    THEN IF (acc.start_time_str \in {"None", ""}) /\ time_spans[1] # "TBC"
         THEN [description_lines |->
                   Append(acc.description_lines,
                          time_spans[1] \o " - " \o time_spans[2]),
               start_time_str |-> time_spans[1]]
         ELSE acc
    ELSE acc

\* lines 164-172: the body of the loop over time_elements, for one row
TimeRowStep(acc, time_spans) ==
    IF Len(time_spans) = 2
    THEN LET time_val == time_spans[1]
             time_desc == time_spans[2]
         IN  [description_lines |->
                  Append(acc.description_lines, time_val \o " - " \o time_desc),
              start_time_str |->
                  IF (acc.start_time_str \in {"None", ""}) /\ time_val # "TBC"
                  THEN time_val
                  ELSE acc.start_time_str]
    ELSE acc

RECURSIVE TimeLoop(_, _)
\* lines 159-172: the loop over time_elements
TimeLoop(acc, rows) ==
    IF rows = <<>> THEN acc
    ELSE TimeLoop(TimeRowStep(acc, Head(rows)), Tail(rows))

RECURSIVE JoinLines(_)
\* "\n".join(description_lines)
JoinLines(lines) ==
    IF lines = <<>> THEN ""
    ELSE IF Len(lines) = 1 THEN lines[1]
    ELSE lines[1] \o "\n" \o JoinLines(Tail(lines))

NoEvent ==
    [title |-> "", start_datetime |-> NoDateTime, is_all_day |-> TRUE,
     description |-> "", url |-> ""]

\* BuildEvent with is_all_day cleared before the time is parsed
BuildEventNoFallback(title, url, date_string, times) ==
    LET chosen == times.start_time_str
        truthy == chosen \notin {"None", ""}
        timed == truthy /\ ParseTimeOfDay(chosen).ok
        full_datetime_str ==
            IF timed THEN WithTime(date_string, chosen) ELSE date_string
        start_datetime == ParseDate(full_datetime_str)
    IN  IF ~start_datetime.ok
        THEN [outcome |-> "error", event |-> NoEvent]
        ELSE [outcome |-> "event",
              event |-> [title |-> title,
                         start_datetime |-> start_datetime.value,
                         is_all_day |-> ~truthy,
                         description |-> JoinLines(times.description_lines),
                         url |-> url]]

\* lines 174-194: combine date and time, build the event dict
BuildEvent(title, url, date_string, times) ==
    LET chosen == times.start_time_str
        truthy == chosen \notin {"None", ""}
        timed == truthy /\ ParseTimeOfDay(chosen).ok
        full_datetime_str ==
            IF timed THEN WithTime(date_string, chosen) ELSE date_string
        start_datetime == ParseDate(full_datetime_str)
    IN  IF ~start_datetime.ok
        THEN [outcome |-> "error", event |-> NoEvent]
        ELSE [outcome |-> "event",
              event |-> [title |-> title,
                         start_datetime |-> start_datetime.value,
                         is_all_day |-> ~timed,
                         description |-> JoinLines(times.description_lines),
                         url |-> url]]

\* lines 127-200: the body of the loop over event_elements, for one container.
\* outcome "event": appended; "skipped": the continue of line 156;
\* "error": an exception caught at line 196.  reached_times: the iteration
\* got to line 161 and assigned start_time_str.
ParseBlock(block, today) ==
    LET title == TitleOf(block)
        url == AbsoluteUrl(block.href)
        date_parts == DateParts(block)
    IN  IF Len(date_parts) >= 3
        THEN LET day_num == date_parts[2]
                 month_str == date_parts[3]
                 resolved == ResolveDateString(day_num, month_str, today)
                 times == TimeLoop([description_lines |-> <<>>,
                                    start_time_str |-> "None"],
                                   block.time_rows)
                 built == BuildEvent(title, url, resolved.date_string, times)
             IN  IF resolved.raised
                 THEN [outcome |-> "error", event |-> NoEvent,
                       reached_times |-> FALSE, start_time_str |-> "None"]
                 ELSE [outcome |-> built.outcome, event |-> built.event,
                       reached_times |-> TRUE,
                       start_time_str |-> times.start_time_str]
        ELSE [outcome |-> "skipped", event |-> NoEvent,
              reached_times |-> FALSE, start_time_str |-> "None"]

\* AppendEvent as events.insert(0, ...)
PrependEvent(list, e) == <<e>> \o list

\* line 188: events.append
AppendEvent(list, e) == Append(list, e)

----------------------------------------------------------------------------
(* create_ical_file: one event *)

\* lines 1-13: the names the module imports; timedelta is not among them
ImportedNames ==
    {"requests", "BeautifulSoup", "Calendar", "Event", "datetime", "parse_date",
     "os", "sys", "time", "webdriver", "By", "WebDriverWait", "EC", "Options"}

\* line 226 evaluates the name timedelta
RaisesNameError(event) == ~event.is_all_day /\ "timedelta" \notin ImportedNames

Location == "The Gabba, Vulture St, Woolloongabba QLD 4102"

\* Uid built from the generation stamp instead of the start
UidFromStamp(event, dtstamp) == ToString(dtstamp) \o "@" \o event.url

\* line 232
Uid(event, dtstamp) == IsoFormat(event.start_datetime) \o "@" \o event.url

\* lines 218-232 for an event that needs no dtend
BaseEntry(event, dtstamp) ==
    [summary |-> event.title,
     dtstart |-> event.start_datetime,
     dtstamp |-> dtstamp,
     location |-> Location,
     description |-> event.description \o "\n\nMore info: " \o event.url,
     url |-> event.url,
     uid |-> Uid(event, dtstamp)]

\* lines 224-226
TimedEntry(event, dtstamp) ==
    [k \in DOMAIN BaseEntry(event, dtstamp) \cup {"dtend"} |->
        IF k = "dtend" THEN PlusHours(event.start_datetime, 2)
        ELSE BaseEntry(event, dtstamp)[k]]

\* lines 218-232
MakeEntry(event, dtstamp) ==
    IF ~event.is_all_day THEN TimedEntry(event, dtstamp)
    ELSE BaseEntry(event, dtstamp)

\* line 234: cal.add_component
AddComponent(list, e) == Append(list, e)

----------------------------------------------------------------------------
(* Pages *)

NoneHtml == [text |-> "None", blocks |-> <<>>]

EmptyHtml == [text |-> "", blocks |-> <<>>]

Html(blocks) == [text |-> "<html>", blocks |-> blocks]

\* "if not html_content" / "if html_content"
Truthy(html) == html.text \notin {"None", ""}

Div(t) == [text |-> t, hidden |-> FALSE]

HiddenDiv(t) == [text |-> t, hidden |-> TRUE]

Block(title, href, date_divs, time_rows) ==
    [title |-> title, href |-> href, date_divs |-> date_divs,
     time_rows |-> time_rows]

Date(y, m, d) == [year |-> y, month |-> m, day |-> d, hour |-> 0, minute |-> 0]

RECURSIVE SeqsUpTo(_, _)
SeqsUpTo(S, n) ==
    IF n = 0 THEN {<<>>}
    ELSE LET shorter == SeqsUpTo(S, n - 1)
         IN  shorter \cup {Append(s, x) : s \in shorter, x \in S}

\* containers of the pipeline runs
PipelineBlocks ==
    { Block("AFL", "/events/afl",
            <<Div("Sat"), Div("22"), Div("Nov")>>, <<>>),
      Block(NoTitle, "/events/bbl",
            <<Div("Sat"), Div("22"), Div("Nov")>>, <<<<"TBC", "Gates open">>>>),
      Block("AFL", "/events/afl",
            <<Div("Sat"), Div("22"), Div("Nov")>>, <<<<"1:30pm", "Gates open">>>>),
      Block("Test", "/events/test",
            <<Div("Sat"), Div("22")>>, <<<<"7:00pm", "First Ball">>>>),
      Block("Test", "/events/test",
            <<Div("Sun"), Div("31"), Div("Nov")>>, <<>>) }

PipelinePages ==
    {EmptyHtml} \cup {Html(bs) : bs \in SeqsUpTo(PipelineBlocks, MaxBlocks)}

PipelineNow == {Date(2024, 11, 1)}

\* containers of the date runs: every day and month of the sets below,
\* without and with a hidden "TBC" placeholder before each position, two
\* short date blocks and a container with no date block
DayTexts == {"15", "22", "29", "31"}

MonthTexts == {"Jan", "Feb", "Nov", "Dec"}

InsertAt(s, k, x) == SubSeq(s, 1, k) \o <<x>> \o SubSeq(s, k + 1, Len(s))

DateDivChoices ==
    LET triples == {<<Div("Sat"), Div(d), Div(m)>> : d \in DayTexts, m \in MonthTexts}
    IN  triples
        \cup {InsertAt(t, k, HiddenDiv("TBC")) : t \in triples, k \in 0..3}
        \cup {<<Div("Sat"), Div("22")>>, <<Div("Sat"), Div("22"), HiddenDiv("TBC")>>,
              <<>>}

DatePages ==
    {EmptyHtml}
    \cup {Html(<<Block("AFL", "/events/afl", divs, rows)>>) :
             divs \in DateDivChoices,
             rows \in {<<>>, <<<<"1:30pm", "Gates open">>>>}}

DateNow ==
    {Date(2024, 12, 20), Date(2024, 11, 1), Date(2025, 1, 20), Date(2024, 1, 20),
     Date(2025, 2, 10), Date(2024, 3, 5)}

\* containers of the time runs: up to MaxRows rows, each a (value, label)
\* pair of spans, or a row of one or of three spans
TimeValues == {"1:30pm", "7:00pm", "TBC", "", "late"}

TimeRows ==
    {<<v, l>> : v \in TimeValues, l \in {"Gates open", "First Ball"}}
    \cup {<<"7:00pm", "GATES OPEN">>, <<"7:00pm">>, <<"1:30pm", "Gates open", "AEST">>}

TimePages ==
    {EmptyHtml}
    \cup {Html(<<Block("AFL", "/events/afl",
                       <<Div("Sat"), Div("22"), Div("Nov")>>, rows)>>) :
             rows \in SeqsUpTo(TimeRows, MaxRows)}

----------------------------------------------------------------------------
(* The script *)

InitWith(pages, dates) ==
    /\ pc = "start"
    /\ now \in dates
    /\ page \in pages
    /\ html_content = NoneHtml
    /\ idx = 0
    /\ events = <<>>
    /\ event_src = <<>>
    /\ start_time_str = "None"
    /\ entries = <<>>
    /\ entry_src = <<>>
    /\ stamp = 0
    /\ output_file = "untouched"
    /\ file_entries = <<>>
    /\ exit_code = 0

Init == InitWith(PipelinePages, PipelineNow)

\* lines 258-262: get_page_source_with_selenium returns the page source, or
\* None when the browser raised
GetPage ==
    /\ pc = "start"
    /\ html_content' \in {page, NoneHtml}
    /\ pc' = "main"
    /\ UNCHANGED <<start_time_str, now, page, idx, events, event_src, entries,
                   entry_src, stamp,
                   output_file, file_entries, exit_code>>

\* lines 265, 275-277
AbortNoSource ==
    /\ pc = "main"
    /\ ~Truthy(html_content)
    /\ pc' = "exited"
    /\ exit_code' = 1
    /\ UNCHANGED <<start_time_str, now, page, html_content, idx, events,
                   event_src, entries,
                   entry_src, stamp, output_file, file_entries>>

\* StartScrape without the exit of lines 269-274 on an empty result
StartScrapeNoCheck ==
    /\ pc = "main"
    /\ Truthy(html_content)
    /\ IF html_content.blocks = <<>>
       THEN pc' = "serializing"
       ELSE pc' = "parsing"
    /\ idx' = 0
    /\ events' = <<>>
    /\ event_src' = <<>>
    /\ UNCHANGED <<start_time_str, now, page, html_content, entries, entry_src,
                   stamp, output_file, file_entries, exit_code>>

\* lines 267, 109-124: scrape_gabba_events up to its loop; with no container
\* it returns [] and lines 269-274 exit
StartScrape ==
    /\ pc = "main"
    /\ Truthy(html_content)
    /\ IF html_content.blocks = <<>>
       THEN pc' = "exited" /\ exit_code' = 1
       ELSE pc' = "parsing" /\ exit_code' = exit_code
    /\ idx' = 0
    /\ events' = <<>>
    /\ event_src' = <<>>
    /\ UNCHANGED <<start_time_str, now, page, html_content, entries, entry_src, stamp,
                   output_file, file_entries>>

\* ParseEvent with the try around the loop: an error ends the loop
ParseEventAbortOnError ==
    /\ pc = "parsing"
    /\ idx < Len(html_content.blocks)
    /\ LET parsed == ParseBlock(html_content.blocks[idx + 1], now)
       IN  /\ IF parsed.outcome = "event"
              THEN /\ events' = AppendEvent(events, parsed.event)
                   /\ event_src' = AppendEvent(event_src, idx + 1)
              ELSE UNCHANGED <<events, event_src>>
           /\ start_time_str' = IF parsed.reached_times
                                THEN parsed.start_time_str
                                ELSE start_time_str
           /\ idx' = IF parsed.outcome = "error"
                     THEN Len(html_content.blocks)
                     ELSE idx + 1
    /\ UNCHANGED <<pc, now, page, html_content, entries, entry_src, stamp,
                   output_file, file_entries, exit_code>>

\* lines 126-200: one iteration of the loop over event_elements
ParseEvent ==
    /\ pc = "parsing"
    /\ idx < Len(html_content.blocks)
    /\ LET parsed == ParseBlock(html_content.blocks[idx + 1], now)
       IN  IF parsed.outcome = "event"
           THEN /\ events' = AppendEvent(events, parsed.event)
                /\ event_src' = AppendEvent(event_src, idx + 1)
           ELSE UNCHANGED <<events, event_src>>
    /\ LET parsed == ParseBlock(html_content.blocks[idx + 1], now)
       IN  start_time_str' = IF parsed.reached_times
                             THEN parsed.start_time_str
                             ELSE start_time_str
    /\ idx' = idx + 1
    /\ UNCHANGED <<pc, now, page, html_content, entries, entry_src, stamp,
                   output_file, file_entries, exit_code>>

\* lines 202, 269-274: the loop is over; main goes on only with events
ScrapeReturn ==
    /\ pc = "parsing"
    /\ idx = Len(html_content.blocks)
    /\ IF events # <<>>
       THEN pc' = "serializing" /\ exit_code' = exit_code
       ELSE pc' = "exited" /\ exit_code' = 1
    /\ UNCHANGED <<start_time_str, now, page, html_content, idx, events,
                   event_src, entries,
                   entry_src, stamp, output_file, file_entries>>

\* lines 217-234: one iteration of the loop over events; the NameError of
\* line 226 is caught nowhere and ends the process
AddEntry ==
    /\ pc = "serializing"
    /\ Len(entry_src) < Len(events)
    /\ LET k == Len(entry_src) + 1
           event == events[k]
       IN  IF RaisesNameError(event)
           THEN /\ pc' = "exited"
                /\ exit_code' = 1
                /\ UNCHANGED <<entries, entry_src, stamp>>
           ELSE /\ entries' = AddComponent(entries, MakeEntry(event, stamp + 1))
                /\ entry_src' = AddComponent(entry_src, k)
                /\ stamp' = stamp + 1
                /\ UNCHANGED <<pc, exit_code>>
    /\ UNCHANGED <<start_time_str, now, page, html_content, idx, events, event_src,
                   output_file, file_entries>>

\* lines 236-242, 279: the file is written and the script finishes
WriteFile ==
    /\ pc = "serializing"
    /\ Len(entry_src) = Len(events)
    /\ output_file' = "written"
    /\ file_entries' = entries
    /\ pc' = "exited"
    /\ exit_code' = 0
    /\ UNCHANGED <<start_time_str, now, page, html_content, idx, events,
                   event_src, entries,
                   entry_src, stamp>>

\* lines 243-245: open or write raised; the file is as it was, or was
\* truncated by open(..., 'wb')
WriteFileFails ==
    /\ pc = "serializing"
    /\ Len(entry_src) = Len(events)
    /\ output_file' \in {"untouched", "truncated"}
    /\ pc' = "exited"
    /\ exit_code' = 1
    /\ UNCHANGED <<start_time_str, now, page, html_content, idx, events,
                   event_src, entries,
                   entry_src, stamp, file_entries>>

Next ==
    \/ GetPage
    \/ AbortNoSource
    \/ StartScrape
    \/ ParseEvent
    \/ ScrapeReturn
    \/ AddEntry
    \/ WriteFile
    \/ WriteFileFails

Spec == Init /\ [][Next]_vars

InitDate == InitWith(DatePages, DateNow)

SpecDate == InitDate /\ [][Next]_vars

InitTime == InitWith(TimePages, PipelineNow)

SpecTime == InitTime /\ [][Next]_vars

----------------------------------------------------------------------------
(* Properties of the pipeline runs (Spec) *)

\* the containers the parser was given
Blocks == html_content.blocks

RECURSIVE SurvivorsUpTo(_)
\* the indexes, in document order, of the first n containers that yield an event
SurvivorsUpTo(n) ==
    IF n = 0 THEN <<>>
    ELSE IF ParseBlock(Blocks[n], now).outcome = "event"
         THEN Append(SurvivorsUpTo(n - 1), n)
         ELSE SurvivorsUpTo(n - 1)

FewDateFragments(block) == Len(block.date_divs) < 3

RaisesError(block) == ParseBlock(block, now).outcome = "error"

Offending(n) ==
    {j \in 1..n : FewDateFragments(Blocks[j]) \/ RaisesError(Blocks[j])}

\* C4 (as claimed): once create_ical_file has ended, every event of the list
\* has a calendar entry, and an entry carries dtend exactly when its event is
\* not all-day, dtend being dtstart plus the fixed two hours.
C4_EndIffTimed ==
    (pc = "exited" /\ events # <<>>) =>
        /\ Len(entries) = Len(events)
        /\ \A k \in 1..Len(events) :
              /\ ("dtend" \in DOMAIN entries[k]) = ~events[k].is_all_day
              /\ ("dtend" \in DOMAIN entries[k]) =>
                    entries[k].dtend = PlusHours(entries[k].dtstart, 2)

\* C5: a container with fewer than 3 date fragments, or whose processing
\* raises, is dropped and the loop goes on: after n containers the list holds
\* n minus the number of offending containers among them, and the parser
\* returns only after the last container.
C5_BatchResilience ==
    /\ Len(events) = idx - Cardinality(Offending(idx))
    /\ (pc \in {"serializing", "exited"} /\ Blocks # <<>>) => idx = Len(Blocks)

C5_Witness ==
    /\ Len(Blocks) = 5
    /\ idx = 5
    /\ Len(Blocks[3].date_divs) = 2
    /\ Offending(5) = {3}
    /\ Len(events) = 4
    /\ pc = "serializing"

\* C6: with no document, or a document without containers, create_ical_file
\* is never entered, the output file stays untouched and the run exits
\* non-zero; the output file is touched only after the parser returned at
\* least one event.
C6_EmptyExtractionFatal ==
    /\ (pc # "start" /\ (~Truthy(html_content) \/ Blocks = <<>>)) =>
          /\ pc # "serializing"
          /\ entries = <<>>
          /\ stamp = 0
          /\ output_file = "untouched"
          /\ file_entries = <<>>
          /\ pc = "exited" => exit_code = 1
    /\ output_file # "untouched" => Len(events) >= 1

C6_Witness ==
    /\ pc = "exited"
    /\ Truthy(html_content)
    /\ Blocks = <<>>
    /\ exit_code = 1
    /\ output_file = "untouched"

\* C7: the events are those of the containers consumed so far that were not
\* dropped, in document order; the components added to the calendar are the
\* events in list order, none twice; and a written file holds one component
\* per event in that order.
C7_OrderPreserved ==
    /\ event_src = SurvivorsUpTo(idx)
    /\ Len(events) = Len(event_src)
    /\ \A i \in 1..Len(events) :
          events[i] = ParseBlock(Blocks[event_src[i]], now).event
    /\ Len(entries) = Len(entry_src)
    /\ \A k \in 1..Len(entries) :
          /\ entry_src[k] = k
          /\ entries[k].summary = events[k].title
          /\ entries[k].url = events[k].url
          /\ entries[k].dtstart = events[k].start_datetime
    /\ output_file = "written" =>
          file_entries = entries /\ Len(entries) = Len(events)

C7_Witness ==
    /\ output_file = "written"
    /\ Len(file_entries) >= 3
    /\ event_src[1] > 1
    /\ \E i \in 1..(Len(event_src) - 1) : event_src[i + 1] > event_src[i] + 1
    /\ file_entries[1].url # file_entries[2].url

\* C8: the uid of a component is decided by (dtstart, url): components with
\* the same start and url carry the same uid, whatever their generation
\* stamp, and components with the same start and different urls carry
\* different uids.
C8_UidDeterministic ==
    \A a, b \in 1..Len(entries) :
        /\ (entries[a].dtstart = entries[b].dtstart /\ entries[a].url = entries[b].url)
              => entries[a].uid = entries[b].uid
        /\ (entries[a].dtstart = entries[b].dtstart /\ entries[a].url # entries[b].url)
              => entries[a].uid # entries[b].uid

C8_Witness ==
    /\ \E a, b \in 1..Len(entries) :
          /\ a # b
          /\ entries[a].dtstart = entries[b].dtstart
          /\ entries[a].url = entries[b].url
          /\ entries[a].dtstamp # entries[b].dtstamp
          /\ entries[a].uid = entries[b].uid
    /\ \E a, b \in 1..Len(entries) :
          /\ entries[a].dtstart = entries[b].dtstart
          /\ entries[a].url # entries[b].url
          /\ entries[a].uid # entries[b].uid

----------------------------------------------------------------------------
(* Properties of the date resolution (SpecDate) *)

RECURSIVE DaysBeforeMonth(_, _)
DaysBeforeMonth(y, m) ==
    IF m = 1 THEN 0 ELSE DaysBeforeMonth(y, m - 1) + DaysInMonth(y, m - 1)

\* the proleptic Gregorian ordinal of a date
Ordinal(d) ==
    365 * (d.year - 1) + ((d.year - 1) \div 4) - ((d.year - 1) \div 100)
        + ((d.year - 1) \div 400) + DaysBeforeMonth(d.year, d.month) + d.day

HasHidden(block) == \E k \in 1..Len(block.date_divs) : block.date_divs[k].hidden

RECURSIVE VisibleTexts(_)
\* the texts of the date fragments not marked hidden, in order
VisibleTexts(divs) ==
    IF divs = <<>> THEN <<>>
    ELSE IF Head(divs).hidden THEN VisibleTexts(Tail(divs))
    ELSE <<Head(divs).text>> \o VisibleTexts(Tail(divs))

\* the fragments name a day the month has, in year y
FormsDate(day_num, month_str, y) ==
    /\ MonthNumber(month_str) > 0
    /\ NumeralValue(day_num) \in 1..DaysInMonth(y, MonthNumber(month_str))

\* C1 (as claimed): the year of an event is the reference year + 1 exactly
\* when its day and month, taken in the reference year, lie more than 30
\* days before the reference date, and the reference year otherwise
\* (reference 20 Dec 2024, fragment 15 Jan: 2025).
C1_ThirtyDayRollover ==
    \A i \in 1..Len(events) :
        LET block == Blocks[event_src[i]]
            parts == DateParts(block)
            candidate == Date(now.year, MonthNumber(parts[3]), NumeralValue(parts[2]))
        IN  (~HasHidden(block) /\ FormsDate(parts[2], parts[3], now.year)) =>
                events[i].start_datetime.year =
                    IF Ordinal(candidate) < Ordinal(now) - 30
                    THEN now.year + 1
                    ELSE now.year

\* C10 (as claimed): hidden fragments are removed before the fragments are
\* counted and read by position: a consumed container with fewer than 3
\* visible fragments yields no event, one whose first three visible
\* fragments form a date yields an event, and the event's day and month are
\* those of the second and third visible fragment.
C10_HiddenFragmentsFiltered ==
    \A j \in 1..idx :
        LET visible == VisibleTexts(Blocks[j].date_divs)
            emitted == \E i \in 1..Len(event_src) : event_src[i] = j
        IN  /\ Len(visible) < 3 => ~emitted
            /\ (Len(visible) >= 3 /\ FormsDate(visible[2], visible[3], now.year))
                  => emitted
            /\ emitted =>
                  \A i \in 1..Len(event_src) :
                      event_src[i] = j =>
                          /\ events[i].start_datetime.day = NumeralValue(visible[2])
                          /\ events[i].start_datetime.month = MonthNumber(visible[3])

----------------------------------------------------------------------------
(* Properties of the time selection (SpecTime) *)

\* the last consumed container got as far as the loop over its time rows
ReachedTimes == idx >= 1 /\ ParseBlock(Blocks[idx], now).reached_times

\* the rows that decompose into exactly a (value, label) pair
Pairs(rows) == {k \in 1..Len(rows) : Len(rows[k]) = 2}

First(S) == CHOOSE k \in S : \A j \in S : k <= j

Lower(label) ==
    CASE label \in {"Gates open", "GATES OPEN"} -> "gates open"
      [] label = "First Ball" -> "first ball"
      [] OTHER -> label

\* the time texts that denote a time of day
TimesOfDay == {"1:30pm", "7:00pm"}

C3_AllDayIffNoNonTbc ==
    \A i \in 1..Len(events) :
        LET rows == Blocks[event_src[i]].time_rows
        IN  events[i].is_all_day = ({k \in Pairs(rows) : rows[k][1] # "TBC"} = {})

\* C3 (amended): an event is timed exactly when its container has a pair
\* whose value is neither "TBC" nor empty and the first such value denotes a
\* time of day; it is all-day otherwise, so also when that value cannot be
\* parsed.
C3_AllDayUnlessParsedTime ==
    \A i \in 1..Len(events) :
        LET rows == Blocks[event_src[i]].time_rows
            usable == {k \in Pairs(rows) : rows[k][1] \notin {"TBC", ""}}
        IN  events[i].is_all_day =
                ~(usable # {} /\ rows[First(usable)][1] \in TimesOfDay)

C3_Witness ==
    \E i \in 1..Len(events) :
        LET rows == Blocks[event_src[i]].time_rows
        IN  /\ Len(rows) = 2
            /\ rows[1][1] = "late"
            /\ rows[2][1] = "7:00pm"
            /\ Len(rows[1]) = 2
            /\ Len(rows[2]) = 2
            /\ events[i].is_all_day

RECURSIVE LinesFrom(_, _)
\* one "value - label" line per two-part row from the k-th on, in row order
LinesFrom(rows, k) ==
    IF k > Len(rows) THEN <<>>
    ELSE (IF Len(rows[k]) = 2
          THEN <<rows[k][1] \o " - " \o rows[k][2]>>
          ELSE <<>>) \o LinesFrom(rows, k + 1)

\* C9: the description of an event is the "value - label" lines of the
\* two-part rows of its container, in row order, "TBC" rows and unselected
\* rows included; rows of another arity give no line and drop no event.
C9_DescriptionOrder ==
    /\ \A i \in 1..Len(events) :
          events[i].description =
              JoinLines(LinesFrom(Blocks[event_src[i]].time_rows, 1))
    /\ \A j \in 1..idx :
          (\E k \in 1..Len(Blocks[j].time_rows) : Len(Blocks[j].time_rows[k]) # 2)
              => ParseBlock(Blocks[j], now).outcome # "error"

C9_Witness ==
    \E i \in 1..Len(events) :
        /\ Blocks[event_src[i]].time_rows =
              <<<<"7:00pm">>, <<"TBC", "Gates open">>, <<"1:30pm", "First Ball">>>>
        /\ events[i].description = "TBC - Gates open\n1:30pm - First Ball"
        /\ events[i].start_datetime.hour = 13

====
